---- MODULE Spec2Model ----
(***************************************************************************)
(* Model of llc/llc_worker.py (Python 2): LLCModel (grid layout and face   *)
(* reader), LLCTileFactory (tile iterator) and LLCTile (windowed loads).   *)
(*                                                                         *)
(* An array is a record [shape |-> <<L, R, C>>, at |-> f] where f maps a    *)
(* zero-based index <<z, r, c>> to the element number in the file that the *)
(* view refers to.  The outcome of a call is a record with a kind field:   *)
(* "array", "tile", or the name of the exception raised.                   *)
(***************************************************************************)
EXTENDS Integers, Sequences, FiniteSets, TLC

VARIABLES
    Nside,      \* LLCModel.Nside
    Ntop,       \* LLCModel.Ntop
    Nz,         \* LLCModel.Nz
    factory,    \* "none", "ok" (LLCTileFactory constructed), "ValueError"
    tileshape,  \* LLCTileFactory.tileshape, <<tileshape[0], tileshape[1]>>
    tiledim,    \* LLCTileFactory.tiledim, one <<tdims[0], tdims[1]>> per face
    Ntiles,     \* LLCTileFactory.Ntiles
    idx_face,   \* LLCTileFactory._idx_face
    idx_x,      \* LLCTileFactory._idx_x
    idx_y,      \* LLCTileFactory._idx_y
    ntile,      \* LLCTileFactory._ntile
    ret,        \* outcome of the last call, with the call's arguments
    out,        \* the tiles next() has returned since construction, in order
    iterBase,   \* number of tiles already returned when the caller's current loop began
    iterPos     \* number of tiles the caller's current loop has received

vars == <<Nside, Ntop, Nz, factory, tileshape, tiledim, Ntiles,
          idx_face, idx_x, idx_y, ntile, ret, out, iterBase, iterPos>>

llcVars == <<Nside, Ntop, Nz>>
factoryVars == <<factory, tileshape, tiledim, Ntiles>>
cursorVars == <<idx_face, idx_x, idx_y, ntile>>
loopVars == <<out, iterBase, iterPos>>

----------------------------------------------------------------------------
(* Bounds of the explored inputs. *)

MaxDim == 4        \* Nside, Ntop range over 1..MaxDim and the value 12
MaxNz == 3         \* Nz ranges over 1..MaxNz
MaxTile == 6       \* tile shape components range over 1..MaxTile
MaxExtra == 1      \* bytes a file may hold beyond a whole number of levels
MaxTiles == 40     \* tile factories of more than MaxTiles tiles are not explored

Dims == (1..MaxDim) \cup {12}
Levels == 1..MaxNz
TileDims == 1..MaxTile

----------------------------------------------------------------------------
(* LLCModel *)

Nfaces == 5
itemsize == 4

Nxtot == 4 * Nside + Ntop

facedims_capwide == << <<Ntop, Nside>>, <<Ntop, Nside>>, <<Ntop, Nside>>,
                       <<Ntop, Nside>>, <<Ntop, Nside>> >>
facedims == << <<Ntop, Nside>>, <<Ntop, Nside>>, <<Ntop, Ntop>>,
               <<Ntop, Nside>>, <<Ntop, Nside>> >>

reshapeface == <<FALSE, FALSE, FALSE, TRUE, TRUE>>

transposeface_none == <<FALSE, FALSE, FALSE, FALSE, FALSE>>
transposeface == <<TRUE, TRUE, FALSE, FALSE, FALSE>>

\* faceorder[Nface], for a zero-based Nface
faceorder(Nface) == <<0, 1, 3, 4, 2>>[Nface + 1]

\* _facedim(Nface): facedims row of the face, as <<dims[0], dims[1]>>
facedim(Nface) == facedims[faceorder(Nface) + 1]

\* np.cumsum(self.facedims.prod(axis=1)/self.Ntop), preceded by 0:
\* idx_lims(N) for N in 0..5
RECURSIVE idx_lims(_)
idx_lims(N) ==
    IF N = 0 THEN 0
    ELSE idx_lims(N - 1) + ((facedims[N][1] * facedims[N][2]) \div Ntop)

----------------------------------------------------------------------------
(* numpy views *)

Idx(shape) == (0..(shape[1] - 1)) \X (0..(shape[2] - 1)) \X (0..(shape[3] - 1))

Min(a, b) == IF a < b THEN a ELSE b

\* length of the slice lo:hi of an axis of n entries
SliceLen(lo, hi, n) == IF Min(hi, n) > Min(lo, n) THEN Min(hi, n) - Min(lo, n) ELSE 0

\* np.memmap(fname, dtype, order='F', shape=mmshape): element <<z, j, i>> is
\* element number z + Nz*(j + Ntop*i) of the file (first index fastest)
Memmap(shape) ==
    [shape |-> shape,
     at |-> [i \in Idx(shape) |-> i[1] + shape[1] * (i[2] + shape[2] * i[3])]]

\* a[:, :, lo:hi]
SliceLast(a, lo, hi) ==
    LET shape == <<a.shape[1], a.shape[2], SliceLen(lo, hi, a.shape[3])>>
    IN [shape |-> shape,
        at |-> [i \in Idx(shape) |-> a.at[<<i[1], i[2], i[3] + Min(lo, a.shape[3])>>]]]

\* a.reshape(shape, order='F'): the same elements in first-index-fastest
\* order; the first axis is kept, so element <<z, p, q>> is the element of a
\* at position p + rows*q of the last two axes, rows the new row count
ReshapeF(a, shape) ==
    [shape |-> shape,
     at |-> [i \in Idx(shape) |->
                a.at[<<i[1], (i[2] + shape[2] * i[3]) % a.shape[2],
                             (i[2] + shape[2] * i[3]) \div a.shape[2]>>]]]

\* a[:, ::-1, :]
FlipRows(a) ==
    [shape |-> a.shape,
     at |-> [i \in Idx(a.shape) |-> a.at[<<i[1], a.shape[2] - 1 - i[2], i[3]>>]]]

\* a.transpose((0, 2, 1))
Transpose(a) ==
    LET shape == <<a.shape[1], a.shape[3], a.shape[2]>>
    IN [shape |-> shape, at |-> [i \in Idx(shape) |-> a.at[<<i[1], i[3], i[2]>>]]]

----------------------------------------------------------------------------
(* LLCModel.memmap_face *)

\* Nz = fsize / self.dtype.itemsize / self.Ntop / self.Nxtot  (Python 2 ints)
FileNz(fsize) == ((fsize \div itemsize) \div Ntop) \div Nxtot

\* the start and stop column of logical face Nface on disk
FaceCols(Nface) ==
    <<idx_lims(faceorder(Nface)), idx_lims(faceorder(Nface) + 1)>>

memmap_face_result(fsize, Nface) ==
    LET fNz == FileNz(fsize)
        N == faceorder(Nface)
        mm0 == Memmap(<<fNz, Ntop, Nxtot>>)
        mm1 == SliceLast(mm0, FaceCols(Nface)[1], FaceCols(Nface)[2])
        mm2 == IF reshapeface[N + 1]
               THEN FlipRows(ReshapeF(mm1, <<fNz, Nside, Ntop>>)) ELSE mm1
        mm3 == IF transposeface[N + 1] THEN Transpose(mm2) ELSE mm2
    IN IF fNz = 1 \/ fNz = Nz
       THEN [kind |-> "array", shape |-> mm3.shape, at |-> mm3.at]
       ELSE [kind |-> "IOError"]

\* bytes of one vertical level of a file of this layout
LevelBytes == itemsize * Ntop * Nxtot

\* sizes of the files offered to the reader: 0..MaxNz+1 whole levels, one
\* byte less, or up to MaxExtra bytes more
FileSizes ==
    {l * LevelBytes + e : l \in 0..(MaxNz + 1), e \in (-1)..MaxExtra} \ {-1}

memmap_face(fsize, Nface) ==
    /\ ret' = [op |-> "memmap_face", fsize |-> fsize, Nface |-> Nface,
               res |-> memmap_face_result(fsize, Nface)]
    /\ UNCHANGED <<llcVars, factoryVars, cursorVars, loopVars>>

----------------------------------------------------------------------------

(* LLCTileFactory *)

\* np.mod(dims[0],tileshape[0]) or np.mod(dims[1],tileshape[1])
Incompatible(dims, ts) == (dims[1] % ts[1] # 0) \/ (dims[2] % ts[2] # 0)

\* tdims = (dims[1]/tileshape[1], dims[0]/tileshape[0])
Tdims_unswapped(dims, ts) == <<dims[1] \div ts[1], dims[2] \div ts[2]>>
Tdims(dims, ts) == <<dims[2] \div ts[2], dims[1] \div ts[1]>>

\* self.tiledim for a compatible tile shape
TiledimOf(ts) == [n \in 1..Nfaces |-> Tdims(facedim(n - 1), ts)]

\* self.tiledim.prod(axis=1).sum()
RECURSIVE SumProd(_, _)
SumProd(td, n) == IF n = 0 THEN 0 ELSE SumProd(td, n - 1) + td[n][1] * td[n][2]

\* LLCModel.get_tile_factory(tileshape=ts) / LLCTileFactory.__init__
get_tile_factory(ts) ==
    /\ factory = "none"
    /\ tileshape' = ts
    /\ IF \E n \in 0..(Nfaces - 1) : Incompatible(facedim(n), ts)
       THEN /\ factory' = "ValueError"
            /\ ret' = [op |-> "get_tile_factory", res |-> [kind |-> "ValueError"]]
            /\ UNCHANGED <<tiledim, Ntiles>>
       ELSE /\ factory' = "ok"
            /\ tiledim' = TiledimOf(ts)
            /\ Ntiles' = SumProd(TiledimOf(ts), Nfaces)
            /\ ret' = [op |-> "get_tile_factory", res |-> [kind |-> "factory"]]
    /\ idx_face' = 0
    /\ idx_x' = 0
    /\ idx_y' = 0
    /\ ntile' = 0
    /\ UNCHANGED <<llcVars, loopVars>>

\* LLCTileFactory.__iter__: returns self; the caller starts a new loop
iter_rewind ==
    /\ factory = "ok"
    /\ iterBase' = Len(out)
    /\ iterPos' = 0
    /\ ret' = [op |-> "iter", res |-> [kind |-> "factory"]]
    /\ idx_face' = 0
    /\ idx_x' = 0
    /\ idx_y' = 0
    /\ ntile' = 0
    /\ UNCHANGED <<llcVars, factoryVars, out>>
iter ==
    /\ factory = "ok"
    /\ iterBase' = Len(out)
    /\ iterPos' = 0
    /\ ret' = [op |-> "iter", res |-> [kind |-> "factory"]]
    /\ UNCHANGED <<llcVars, factoryVars, cursorVars, out>>

\* the two roll-over tests that open next(), on cursor c = <<face, x, y>>
\* with td = self.tiledim[self._idx_face]
RollOver_keepy(c, td) ==
    LET x1 == IF c[2] = td[2] THEN 0 ELSE c[2]
        y1 == IF c[2] = td[2] THEN c[3] + 1 ELSE c[3]
    IN IF y1 = td[1] THEN <<c[1] + 1, x1, y1>> ELSE <<c[1], x1, y1>>
RollOver(c, td) ==
    LET x1 == IF c[2] = td[2] THEN 0 ELSE c[2]
        y1 == IF c[2] = td[2] THEN c[3] + 1 ELSE c[3]
    IN IF y1 = td[1] THEN <<c[1] + 1, x1, 0>> ELSE <<c[1], x1, y1>>

\* t * np.r_[i, i+1]
Lims(t, i) == <<t * i, t * (i + 1)>>

\* LLCTile(self.llc, Nface, ylims, xlims, tile_id)
LLCTile(Nface, ylims, xlims, tile_id) ==
    [kind |-> "tile", Nface |-> Nface, ylims |-> ylims, xlims |-> xlims,
     Nx |-> xlims[2] - xlims[1], Ny |-> ylims[2] - ylims[1], id |-> tile_id]

\* LLCTileFactory.next
next ==
    /\ factory = "ok"
    /\ IF idx_face >= Nfaces
       THEN \* self.tiledim[self._idx_face] is out of bounds
            /\ ret' = [op |-> "next", res |-> [kind |-> "IndexError"]]
            /\ UNCHANGED <<cursorVars, loopVars>>
       ELSE LET c == RollOver(<<idx_face, idx_x, idx_y>>, tiledim[idx_face + 1])
            IN /\ idx_face' = c[1]
               /\ idx_y' = c[3]
               /\ IF c[1] = Nfaces
                  THEN /\ idx_x' = c[2]
                       /\ ret' = [op |-> "next", res |-> [kind |-> "StopIteration"]]
                       /\ UNCHANGED <<ntile, loopVars>>
                  ELSE LET t == LLCTile(c[1], Lims(tileshape[1], c[3]),
                                        Lims(tileshape[2], c[2]), ntile)
                       IN /\ idx_x' = c[2] + 1
                          /\ ntile' = ntile + 1
                          /\ ret' = [op |-> "next", res |-> t]
                          /\ out' = Append(out, t)
                          /\ iterPos' = iterPos + 1
                          /\ UNCHANGED iterBase
    /\ UNCHANGED <<llcVars, factoryVars>>

\* LLCTileFactory.get_tile: the name cumsum is not defined in the module
get_tile(k) ==
    /\ factory = "ok"
    /\ ret' = [op |-> "get_tile", Ntile |-> k, res |-> [kind |-> "NameError"]]
    /\ UNCHANGED <<llcVars, factoryVars, cursorVars, loopVars>>

(* LLCTile *)

\* LLCModel.load_grid_file(fname, Nface)
load_grid_file(fsize, Nface) == memmap_face_result(fsize, Nface)

\* LLCModel.load_data_file(fname, Nface): os.path.join(...) *args multiplies
\* a str by the tuple (Nface,) and raises before memmap_face is called
load_data_file(fsize, Nface) == [kind |-> "TypeError"]

\* a[zrange, y0:y1, x0:x1] with zrange = np.r_[:n]; an exception raised by
\* the loader propagates
Window(a, n, ylims, xlims) ==
    IF a.kind # "array" THEN a
    ELSE IF n > a.shape[1] THEN [kind |-> "IndexError"]
    ELSE LET shape == <<n, SliceLen(ylims[1], ylims[2], a.shape[2]),
                        SliceLen(xlims[1], xlims[2], a.shape[3])>>
         IN [kind |-> "array", shape |-> shape,
             at |-> [i \in Idx(shape) |->
                        a.at[<<i[1], i[2] + Min(ylims[1], a.shape[2]),
                                     i[3] + Min(xlims[1], a.shape[3])>>]]]

\* LLCTile.load_data(fname, zrange=None, grid=grid) on tile t
load_data_result(t, fsize, grid) ==
    Window(IF grid THEN load_grid_file(fsize, t.Nface)
                   ELSE load_data_file(fsize, t.Nface),
           Nz, t.ylims, t.xlims)

\* the tile the caller holds: the one next() returned last
HeldTile == out[Len(out)]

\* LLCTile.load_data(fname) on the held tile
load_data(fsize) ==
    /\ Len(out) > 0
    /\ ret' = [op |-> "load_data", fsize |-> fsize, tile |-> HeldTile,
               res |-> load_data_result(HeldTile, fsize, FALSE)]
    /\ UNCHANGED <<llcVars, factoryVars, cursorVars, loopVars>>

\* LLCTile.load_grid(fname) on the held tile
load_grid(fsize) ==
    /\ Len(out) > 0
    /\ ret' = [op |-> "load_grid", fsize |-> fsize, tile |-> HeldTile,
               res |-> load_data_result(HeldTile, fsize, TRUE)]
    /\ UNCHANGED <<llcVars, factoryVars, cursorVars, loopVars>>

----------------------------------------------------------------------------

NoCall == [op |-> "none"]

Init ==
    /\ Nside \in Dims
    /\ Ntop \in Dims
    /\ Nz \in Levels
    /\ factory = "none"
    /\ tileshape = <<0, 0>>
    /\ tiledim = <<>>
    /\ Ntiles = 0
    /\ idx_face = 0
    /\ idx_x = 0
    /\ idx_y = 0
    /\ ntile = 0
    /\ ret = NoCall
    /\ out = <<>>
    /\ iterBase = 0
    /\ iterPos = 0

\* the face reader
NextFace == \E fsize \in FileSizes, Nface \in 0..(Nfaces - 1) : memmap_face(fsize, Nface)

SpecFace == Init /\ [][NextFace]_vars

\* the tile shapes offered to get_tile_factory: every shape that is
\* rejected, and every accepted shape that yields at most MaxTiles tiles
TileShapes ==
    {ts \in TileDims \X TileDims :
        (\A n \in 0..(Nfaces - 1) : ~Incompatible(facedim(n), ts))
            => SumProd(TiledimOf(ts), Nfaces) <= MaxTiles}

NewFactory == \E ts \in TileShapes : get_tile_factory(ts)

\* the tile factory and its iterator
NextTiles == NewFactory \/ iter \/ next

SpecTiles == Init /\ [][NextTiles]_vars

\* the tile factory, its iterator and the lookup by tile id
NextResolve == NewFactory \/ next \/ (\E k \in 0..(Ntiles - 1) : get_tile(k))

SpecResolve == Init /\ [][NextResolve]_vars

\* the tile factory, its iterator and the loads of the tiles it returns
NextLoad ==
    \/ NewFactory
    \/ next
    \/ \E fsize \in FileSizes : load_data(fsize)
    \/ \E fsize \in FileSizes : load_grid(fsize)

SpecLoad == Init /\ [][NextLoad]_vars

\* the whole program: every operation above.  Its state graph is the product
\* of the four parts checked separately (the face reader and the loads keep
\* no state, get_tile changes none).
Next == NextFace \/ NextTiles \/ NextResolve \/ NextLoad

Spec == Init /\ [][Next]_vars

----------------------------------------------------------------------------
(* Properties *)

\* rows and columns of the array memmap_face returns for logical face n
FaceShape(n) ==
    LET a == memmap_face_result(LevelBytes, n) IN <<a.shape[2], a.shape[3]>>

IsTile(r) == r.op = "next" /\ r.res.kind = "tile"
Exhausted == factory = "ok" /\ ret.op = "next" /\ ret.res.kind = "StopIteration"
TilesOf(n) == {k \in 1..Len(out) : out[k].Nface = n}

\* the window of tile t lies inside the array of its face
InsideFace(t) ==
    /\ 0 <= t.ylims[1] /\ t.ylims[1] < t.ylims[2]
    /\ t.ylims[2] <= FaceShape(t.Nface)[1]
    /\ 0 <= t.xlims[1] /\ t.xlims[1] < t.xlims[2]
    /\ t.xlims[2] <= FaceShape(t.Nface)[2]

Covers(t, r, c) ==
    /\ t.ylims[1] <= r /\ r < t.ylims[2]
    /\ t.xlims[1] <= c /\ c < t.xlims[2]

\* every cell of face n lies in exactly one of the tiles returned for it
PartitionsFace(n) ==
    \A r \in 0..(FaceShape(n)[1] - 1), c \in 0..(FaceShape(n)[2] - 1) :
        Cardinality({k \in TilesOf(n) : Covers(out[k], r, c)}) = 1

\* C1: for every accepted tile shape, square or not, every tile window lies
\* inside the array memmap_face returns for the tile's face, and once the
\* iterator is exhausted the windows returned for each face cover every cell
\* of that array exactly once.
C1_TileCoverage ==
    /\ IsTile(ret) => InsideFace(ret.res)
    /\ Exhausted => \A n \in 0..(Nfaces - 1) : PartitionsFace(n)

\* row-tile and column-tile index of a tile
RowTile(t) == t.ylims[1] \div tileshape[1]
ColTile(t) == t.xlims[1] \div tileshape[2]

\* b follows a in the order (face, row-tile, column-tile), column-tile fastest
LexSucc(a, b) ==
    \/ /\ b.Nface = a.Nface /\ RowTile(b) = RowTile(a)
       /\ ColTile(b) = ColTile(a) + 1
    \/ /\ b.Nface = a.Nface /\ RowTile(b) = RowTile(a) + 1 /\ ColTile(b) = 0
       /\ \A k \in TilesOf(a.Nface) : ColTile(out[k]) <= ColTile(a)
    \/ /\ b.Nface = a.Nface + 1 /\ RowTile(b) = 0 /\ ColTile(b) = 0
       /\ \A k \in TilesOf(a.Nface) :
            RowTile(out[k]) <= RowTile(a) /\ ColTile(out[k]) <= ColTile(a)

\* C2: from a freshly constructed factory the k-th tile returned by next()
\* has id k, the first tile is (face 0, row-tile 0, column-tile 0), every
\* tile is the successor of the one before in the order (face, row-tile,
\* column-tile) with the column-tile index fastest, never more than Ntiles
\* tiles are returned, the call after the Ntiles-th tile signals the end, and
\* StopIteration is raised only when exactly Ntiles tiles were returned.
C2_EnumerationOrder ==
    factory = "ok" =>
        /\ \A k \in 1..Len(out) : out[k].id = k - 1
        /\ Len(out) > 0 =>
              out[1].Nface = 0 /\ RowTile(out[1]) = 0 /\ ColTile(out[1]) = 0
        /\ \A k \in 1..(Len(out) - 1) : LexSucc(out[k], out[k + 1])
        /\ Len(out) <= Ntiles
        /\ (Len(out) = Ntiles /\ idx_face < Nfaces) =>
              RollOver(<<idx_face, idx_x, idx_y>>, tiledim[idx_face + 1])[1] = Nfaces
        /\ (Len(out) < Ntiles) =>
              RollOver(<<idx_face, idx_x, idx_y>>, tiledim[idx_face + 1])[1] < Nfaces
        /\ Exhausted => Len(out) = Ntiles

C2_Witness ==
    /\ Exhausted /\ Nside = 4 /\ Ntop = 12 /\ tileshape = <<6, 4>>
    /\ Len(out) = 14 /\ out[14].id = 13 /\ out[14].Nface = 4

\* C3 as stated: a loop over the factory yields, at each position, the tile
\* the first pass yielded at that position.
C3_Restartable == IsTile(ret) => ret.res = out[iterPos]

\* C3 amended: __iter__ does not rewind.  The p-th tile of a loop that began
\* after b tiles had been returned has id b + p - 1, and a loop that begins
\* after all Ntiles tiles were returned receives no tile.
C3_ContinuesFromCursor ==
    factory = "ok" =>
        /\ IsTile(ret) => ret.res.id = iterBase + iterPos - 1
        /\ iterBase = Ntiles => iterPos = 0
        /\ (iterBase = Ntiles /\ ret.op = "next") =>
              ret.res.kind \in {"StopIteration", "IndexError"}

C3_Witness ==
    /\ IsTile(ret) /\ iterBase = 3 /\ iterPos = 1 /\ ret.res.id = 3

C3_WitnessExhausted ==
    /\ factory = "ok" /\ iterBase = Ntiles /\ ret.op = "next"
    /\ ret.res.kind = "IndexError"

\* C4: memmap_face returns an array exactly when the file holds 1 or Nz
\* whole levels and not a byte more or less, and raises IOError otherwise.
C4_ExactSize ==
    ret.op = "memmap_face" =>
        /\ ret.res.kind \in {"array", "IOError"}
        /\ ret.res.kind = "array" <=>
              (ret.fsize = LevelBytes \/ ret.fsize = Nz * LevelBytes)

\* a file of exactly 1 or Nz levels was read
ReadWholeFile ==
    /\ ret.op = "memmap_face"
    /\ ret.fsize = LevelBytes \/ ret.fsize = Nz * LevelBytes

\* C5 as stated: the array has the shape (L, rows, cols) that _facedim
\* declares for the face, and in the 12/4/3 layout every face of a 3-level
\* file has shape (3,4,12) or (3,12,4).
C5_DeclaredShape ==
    ReadWholeFile =>
        /\ ret.res.kind = "array"
        /\ ret.res.shape = <<ret.fsize \div LevelBytes,
                             facedim(ret.Nface)[1], facedim(ret.Nface)[2]>>
        /\ (Nside = 12 /\ Ntop = 4 /\ Nz = 3 /\ ret.fsize = 3 * LevelBytes) =>
              ret.res.shape \in {<<3, 4, 12>>, <<3, 12, 4>>}

\* C5 amended: for a file of exactly L levels, L = 1 or Nz, the array of
\* logical faces 0..3 has shape (L, Nside, Ntop), the declared dims swapped,
\* and the array of logical face 4, the cap, has shape (L, Ntop, Ntop); in
\* the 12/4/3 layout that is (3,12,4) four times and (3,4,4) for the cap.
C5_OrientedShape ==
    ReadWholeFile =>
        /\ ret.res.kind = "array"
        /\ ret.res.shape = <<ret.fsize \div LevelBytes,
                             IF ret.Nface = 4 THEN Ntop ELSE Nside, Ntop>>
        /\ ret.res.shape = <<ret.fsize \div LevelBytes,
                             facedim(ret.Nface)[2], facedim(ret.Nface)[1]>>
        /\ (Nside = 12 /\ Ntop = 4 /\ Nz = 3 /\ ret.fsize = 3 * LevelBytes) =>
              ret.res.shape = IF ret.Nface = 4 THEN <<3, 4, 4>> ELSE <<3, 12, 4>>

C5_Witness ==
    /\ ReadWholeFile /\ Nside = 12 /\ Ntop = 4 /\ Nz = 3 /\ ret.fsize = 2496
    /\ ret.Nface = 4 /\ ret.res.kind = "array" /\ ret.res.shape = <<3, 4, 4>>

\* the on-disk columns the elements of array a lie in, for a file read as
\* (a.shape[1], Ntop, Nxtot) in first-index-fastest order
ColumnsRead(a) ==
    {(a.at[i] \div a.shape[1]) \div Ntop : i \in Idx(a.shape)}

\* C6: the column ranges FaceCols gives the five logical faces lie in
\* [0, Nxtot), do not overlap, are contiguous in on-disk order and together
\* cover [0, Nxtot); and the array memmap_face returns for a face holds the
\* elements of exactly the columns of that face's range.
C6_OffsetPartition ==
    /\ {faceorder(n) : n \in 0..(Nfaces - 1)} = 0..(Nfaces - 1)
    /\ \A n \in 0..(Nfaces - 1) :
          0 <= FaceCols(n)[1] /\ FaceCols(n)[1] < FaceCols(n)[2]
              /\ FaceCols(n)[2] <= Nxtot
    /\ \A n, m \in 0..(Nfaces - 1) :
          n # m => (FaceCols(n)[2] <= FaceCols(m)[1]
                        \/ FaceCols(m)[2] <= FaceCols(n)[1])
    /\ \A n, m \in 0..(Nfaces - 1) :
          faceorder(m) = faceorder(n) + 1 => FaceCols(n)[2] = FaceCols(m)[1]
    /\ \A c \in 0..(Nxtot - 1) :
          \E n \in 0..(Nfaces - 1) : FaceCols(n)[1] <= c /\ c < FaceCols(n)[2]
    /\ (ret.op = "memmap_face" /\ ret.res.kind = "array") =>
          ColumnsRead(ret.res) = FaceCols(ret.Nface)[1]..(FaceCols(ret.Nface)[2] - 1)

C6_Witness ==
    /\ ret.op = "memmap_face" /\ ret.res.kind = "array" /\ ret.Nface = 2
    /\ Nside = 3 /\ Ntop = 2 /\ FaceCols(2) = <<8, 11>>
    /\ ColumnsRead(ret.res) = {8, 9, 10}

\* C7: the factory is constructed exactly when every face's declared dims
\* (rows, cols) are multiples of (tileRows, tileCols) and construction fails
\* with ValueError otherwise, returning no tiles; an accepted face is split
\* into rows/tileRows row-tiles by cols/tileCols column-tiles.
C7_AcceptanceAndSplit ==
    /\ factory = "ok" =>
          \A n \in 0..(Nfaces - 1) :
              facedim(n)[1] % tileshape[1] = 0 /\ facedim(n)[2] % tileshape[2] = 0
    /\ factory = "ValueError" =>
          /\ \E n \in 0..(Nfaces - 1) :
                facedim(n)[1] % tileshape[1] # 0 \/ facedim(n)[2] % tileshape[2] # 0
          /\ out = <<>>
    /\ Exhausted =>
          \A n \in 0..(Nfaces - 1) :
              /\ Cardinality({RowTile(out[k]) : k \in TilesOf(n)})
                    = facedim(n)[1] \div tileshape[1]
              /\ Cardinality({ColTile(out[k]) : k \in TilesOf(n)})
                    = facedim(n)[2] \div tileshape[2]

\* C8: get_tile(k) returns the tile the iterator returned k-th.
C8_ResolveMatches ==
    (ret.op = "get_tile" /\ ret.Ntile < Len(out)) => ret.res = out[ret.Ntile + 1]

\* the face-reader outcome for the file and face of the load in ret
FaceOfLoad == memmap_face_result(ret.fsize, ret.tile.Nface)

\* C9: load_data and load_grid with the default zrange, on a file of exactly
\* 1 or Nz levels, return the (levels, tileRows, tileCols) window of the
\* face array at the tile's row and column range; a load fails only with the
\* error of the face read.
C9_LoadField ==
    ret.op \in {"load_data", "load_grid"} =>
        /\ (ret.fsize = LevelBytes \/ ret.fsize = Nz * LevelBytes) =>
              /\ ret.res.kind = "array"
              /\ ret.res.shape =
                    <<ret.fsize \div LevelBytes, tileshape[1], tileshape[2]>>
              /\ \A i \in Idx(ret.res.shape) :
                    ret.res.at[i] = FaceOfLoad.at[<<i[1], i[2] + ret.tile.ylims[1],
                                                    i[3] + ret.tile.xlims[1]>>]
        /\ ret.res.kind # "array" =>
              FaceOfLoad.kind # "array" /\ ret.res = FaceOfLoad

\* C10: with a square tile shape (t, t) every tile returned is a t x t window
\* inside the array memmap_face returns for its face, and once the iterator
\* is exhausted the windows of each face cover every cell of that array
\* exactly once.
C10_SquareTiles ==
    (factory = "ok" /\ tileshape[1] = tileshape[2]) =>
        /\ IsTile(ret) =>
              /\ InsideFace(ret.res)
              /\ ret.res.Ny = tileshape[1] /\ ret.res.Nx = tileshape[1]
        /\ Exhausted => \A n \in 0..(Nfaces - 1) : PartitionsFace(n)

C10_Witness ==
    /\ Exhausted /\ tileshape = <<4, 4>> /\ Nside = 12 /\ Ntop = 4
    /\ Len(out) = 13 /\ out[12].ylims = <<8, 12>> /\ out[13].Nface = 4

====
